---- MODULE Spec2Model ----
(***************************************************************************)
(* Model of the impurity / information-gain functions of                   *)
(* InfoGain_Computation.ipynb: compute_impurity (cell 11) and              *)
(* comp_feature_information_gain (cell 15).                                *)
(*                                                                         *)
(* Numbers.  The notebook computes in float64 and rounds to 3 decimals.    *)
(* The model keeps every number as an exact integer:                       *)
(*   - an impurity or a weight returned by round(., 3) is an integer count *)
(*     of thousandths ("milli"): 0.918 is 918;                             *)
(*   - a product impurity * weight, the remaining impurity and the gain    *)
(*     are integer counts of millionths ("micro"): 0.877178 is 877178;     *)
(*   - log2 is evaluated to the millionth.                                 *)
(* float64 noise (about 1e-16, e.g. the printed 0.1056490000000001 for     *)
(* 0.105649) is below the model's resolution and is not represented.       *)
(* All intermediate products stay below 2^31.                              *)
(***************************************************************************)
EXTENDS Integers, Sequences, FiniteSets, TLC

VARIABLES
    pc,                         \* position of the running cell / function
    fn,                         \* the function the running cell called
    feature,                    \* compute_impurity argument (direct call)
    impurity_criterion,         \* compute_impurity argument (direct call)
    df,                         \* comp_feature_information_gain arguments
    target,
    descriptive_feature,
    split_criterion,
    target_entropy,             \* locals of comp_feature_information_gain
    levels,                     \*   levels the for loop has still to visit
    entropy_list,
    weight_list,
    feature_remaining_impurity,
    information_gain,
    retval,                     \* <<>>: nothing returned; <<v>>: v returned
    exc,                        \* "" or the name of the raised exception
    stdout,                     \* the lines printed so far by the call
    calls,                      \* the compute_impurity invocations of the call
    history,                    \* earlier calls of the session, with results
    suspended                   \* frame of a second, interleaved evaluation

vars == <<pc, fn, feature, impurity_criterion, df, target, descriptive_feature,
          split_criterion, target_entropy, levels, entropy_list, weight_list,
          feature_remaining_impurity, information_gain, retval, exc, stdout,
          calls, history, suspended>>

(***************************************************************************)
(* Bounds of the enumerated inputs.                                        *)
(***************************************************************************)
\* longest label sequence enumerated exhaustively for compute_impurity
MaxLen == 5
\* most rows of an exhaustively enumerated dataset
MaxRows == 4
\* most earlier calls a session remembers
MaxHistory == 2
\* length of the long skewed label sequence: SkewLen - 1 equal labels and
\* one different label (and the same with one label fewer)
SkewLen == 3999

(***************************************************************************)
(* Generic helpers.                                                        *)
(***************************************************************************)
Range(s) == {s[i] : i \in DOMAIN s}

RECURSIVE SetSum(_, _)
\* sum of f[x] over x \in S
SetSum(f, S) ==
    IF S = {} THEN 0
    ELSE LET x == CHOOSE y \in S : TRUE IN f[x] + SetSum(f, S \ {x})

\* all sequences over S of length 0..n
SeqsUpTo(S, n) == UNION {[1..k -> S] : k \in 0..n}

(***************************************************************************)
(* round(x, 3) for x = num / den >= 0, as a count of thousandths.          *)
(* Three steps of long division give floor(1000 * num / den) and the       *)
(* remainder; the remainder decides the rounding.  A tie goes to the even  *)
(* neighbour (numpy's rint and Python's round both do so when x is exactly *)
(* representable, which is the case for every tie the enumerated inputs    *)
(* produce: ties need den to hold a factor 16).                            *)
(***************************************************************************)

\* mutant of round3: the thousandths are cut off, not rounded
Floor3(num, den) ==
    LET q0 == num \div den
        r0 == num % den
        q1 == (r0 * 10) \div den
        r1 == (r0 * 10) % den
        q2 == (r1 * 10) \div den
        r2 == (r1 * 10) % den
        q3 == (r2 * 10) \div den
    IN  q0 * 1000 + q1 * 100 + q2 * 10 + q3

\* round(num / den, 3) in thousandths
round3(num, den) ==
    LET q0 == num \div den
        r0 == num % den
        q1 == (r0 * 10) \div den
        r1 == (r0 * 10) % den
        q2 == (r1 * 10) \div den
        r2 == (r1 * 10) % den
        q3 == (r2 * 10) \div den
        r3 == (r2 * 10) % den
        fl == q0 * 1000 + q1 * 100 + q2 * 10 + q3
    IN  IF 2 * r3 > den THEN fl + 1
        ELSE IF 2 * r3 < den THEN fl
        ELSE IF fl % 2 = 0 THEN fl ELSE fl + 1

(***************************************************************************)
(* np.log2 on a positive integer c, in millionths.                         *)
(* c = 2^e * x with x in [1, 2); the fraction bits of log2(x) come from    *)
(* repeated squaring of x (28 fraction bits, 24 result bits), so the       *)
(* result is within one millionth of log2(c).                              *)
(***************************************************************************)
FloorLog2(c) == CHOOSE e \in 0..27 : 2^e <= c /\ c < 2^(e + 1)

\* x * x / 2^28 for x < 2^29, without leaving 31 bits
Sq28(x) ==
    LET xh == x \div 2^14
        xl == x % 2^14
    IN  xh * xh + (2 * xh * xl + (xl * xl) \div 2^14) \div 2^14

RECURSIVE Log2FracNano(_, _)
Log2FracNano(x, j) ==
    IF j > 24 THEN 0
    ELSE LET y == Sq28(x) IN
         IF y >= 2^29
         THEN (10^9 \div 2^j) + Log2FracNano(y \div 2, j + 1)
         ELSE Log2FracNano(y, j + 1)

log2(c) ==
    LET e == FloorLog2(c)
    IN  e * 10^6 + (Log2FracNano(c * 2^(28 - e), 1) + 500) \div 1000

\* mutant of MulDiv: np.sum(np.log2(probs)), the factor probs forgotten
MulDivNoFactor(a, b, n) == b

\* floor(a * b / n) for 0 <= a <= n, b >= 0, n * n < 2^31
MulDiv(a, b, n) == a * (b \div n) + (a * (b % n)) \div n

(***************************************************************************)
(* compute_impurity (cell 11).                                             *)
(***************************************************************************)
\* mutant of value_counts: runs of equal labels are counted, not labels
value_counts_of_runs(series) ==
    [n     |-> Len(series),
     count |-> [v \in Range(series) |->
                   Cardinality({i \in DOMAIN series :
                                   /\ series[i] = v
                                   /\ (i = 1 \/ series[i - 1] # v)})]]

\* feature.value_counts(normalize=True): the distinct labels with their
\* counts, and the length the counts are divided by.  The probability of
\* label v is count[v] / n.
value_counts(series) ==
    [n     |-> Len(series),
     count |-> [v \in Range(series) |->
                   Cardinality({i \in DOMAIN series : series[i] = v})]]

\* -1 * np.sum(np.log2(probs) * probs), in millionths:
\* sum over the labels of (c/n) * (log2(n) - log2(c)).
\* np.sum of an empty Series is 0.0.
entropy_impurity(probs) ==
    LET term == [v \in DOMAIN probs.count |->
                    MulDiv(probs.count[v],
                           log2(probs.n) - log2(probs.count[v]),
                           probs.n)]
    IN  SetSum(term, DOMAIN probs.count)

\* mutant of gini_numerator: np.sum(np.square(probs)), the "1 -" forgotten
gini_numerator_no_complement(probs) ==
    LET sq == [v \in DOMAIN probs.count |-> probs.count[v] * probs.count[v]]
    IN  SetSum(sq, DOMAIN probs.count)

\* 1 - np.sum(np.square(probs)) as the fraction num / den:
\* (n^2 - sum c^2) / n^2; for an empty Series the sum is 0.0 and the
\* impurity is 1 - 0.0 = 1.
gini_numerator(probs) ==
    LET sq == [v \in DOMAIN probs.count |-> probs.count[v] * probs.count[v]]
    IN  probs.n * probs.n - SetSum(sq, DOMAIN probs.count)

NoValue == <<>>

\* the outcome of a call: a returned value or a raised exception
Returned(v) == [raised |-> "", value |-> <<v>>]
Raised(e) == [raised |-> e, value |-> NoValue]

\* mutant of compute_impurity: the gini index is cut to 3 decimals
compute_impurity_truncating(series, criterion) ==
    LET probs == value_counts(series) IN
    IF criterion = "entropy"
    THEN Returned(round3(entropy_impurity(probs), 10^6))
    ELSE IF criterion = "gini"
    THEN IF probs.n = 0 THEN Returned(1000)
         ELSE Returned(Floor3(gini_numerator(probs), probs.n * probs.n))
    ELSE Raised("ValueError")

\* mutant of compute_impurity: an unknown criterion falls back to gini
compute_impurity_fallback(series, criterion) ==
    LET probs == value_counts(series) IN
    IF criterion = "entropy"
    THEN Returned(round3(entropy_impurity(probs), 10^6))
    ELSE IF probs.n = 0 THEN Returned(1000)
    ELSE Returned(round3(gini_numerator(probs), probs.n * probs.n))

\* lines 448-464.  The result is in thousandths.  An empty Series passes
\* through: its entropy is -1 * 0.0 = -0.0 (0 here) and its gini index is
\* 1 - 0.0 = 1.0; no branch raises for it.
compute_impurity(series, criterion) ==
    LET probs == value_counts(series) IN
    IF criterion = "entropy"
    THEN Returned(round3(entropy_impurity(probs), 10^6))
    ELSE IF criterion = "gini"
    THEN IF probs.n = 0 THEN Returned(1000)
         ELSE Returned(round3(gini_numerator(probs), probs.n * probs.n))
    ELSE Raised("ValueError")

(***************************************************************************)
(* Inputs.                                                                 *)
(***************************************************************************)
\* the criterion names passed: the two supported ones, the 'foo' of the
\* commented test of cell 11, and a supported name in the wrong case
Supported == {"entropy", "gini"}
Criteria == Supported \cup {"foo", "Entropy"}

\* cell 2: lst = ['apple']*3 + ['orange']*2 + ['banana']*2
fruits == <<"apple", "apple", "apple", "orange", "orange", "banana", "banana">>

\* cell 7: the basket of seven different fruits
fruits2 == <<"apple", "orange", "banana", "mango", "blueberry", "watermelon",
             "pear">>

Labels == {"apple", "orange", "banana"}

\* n - 1 times 'apple', then one 'orange'
Skewed(n) == [i \in 1..n |-> IF i = n THEN "orange" ELSE "apple"]

\* the label sequences compute_impurity is called on directly
Features ==
    SeqsUpTo(Labels, MaxLen) \cup {fruits, fruits2}
        \cup {Skewed(SkewLen - 1), Skewed(SkewLen)}

\* cell 10: the vegetation dataset (FMLPDA_Table4_3.csv)
VegRow(s, sl, el, v) ==
    [stream |-> s, slope |-> sl, elevation |-> el, vegetation |-> v]

Vegetation ==
    [columns |-> <<"stream", "slope", "elevation", "vegetation">>,
     rows |-> << VegRow(FALSE, "steep",    "high",    "chapparal"),
                 VegRow(TRUE,  "moderate", "low",     "riparian"),
                 VegRow(TRUE,  "steep",    "medium",  "riparian"),
                 VegRow(FALSE, "steep",    "medium",  "chapparal"),
                 VegRow(FALSE, "flat",     "high",    "conifer"),
                 VegRow(TRUE,  "steep",    "highest", "conifer"),
                 VegRow(TRUE,  "steep",    "high",    "chapparal") >>]

\* every dataset of at most MaxRows rows over the columns slope, vegetation
SlopeLevels == {"steep", "moderate", "flat"}
VegLabels == {"chapparal", "riparian"}
SmallRows == [slope : SlopeLevels, vegetation : VegLabels]
SmallDatasets ==
    {[columns |-> <<"slope", "vegetation">>, rows |-> r] :
        r \in SeqsUpTo(SmallRows, MaxRows)}

\* a dataset of k equally large elevation bins 1..k, each bin holding one
\* chapparal row and one riparian row
Binned(k) ==
    [columns |-> <<"elevation", "vegetation">>,
     rows |-> [i \in 1..(2 * k) |->
                 [elevation |-> (i + 1) \div 2,
                  vegetation |-> IF i % 2 = 1 THEN "chapparal"
                                 ELSE "riparian"]]]

BinCounts == {6, 399}

Datasets == SmallDatasets \cup {Vegetation} \cup {Binned(k) : k \in BinCounts}

\* the target names a call passes: the target column and a name no dataset has
Targets == {"vegetation", "soil"}

\* the descriptive names a call passes for dataset d: each of its other
\* columns and a name no dataset has
Descriptives(d) == (Range(d.columns) \ {"vegetation"}) \cup {"aspect"}

(***************************************************************************)
(* pandas operations used by comp_feature_information_gain (cell 15).      *)
(***************************************************************************)
\* df[name] raises KeyError when name is not a column
HasColumn(d, name) == name \in Range(d.columns)

\* df[name]: the column as a sequence in row order
Column(d, name) == [i \in DOMAIN d.rows |-> d.rows[i][name]]

\* the elements of seq at the positions idx, in increasing position
Select(seq, idx) ==
    LET ranked == {<<Cardinality({j \in idx : j <= i}), i>> : i \in idx}
    IN  [k \in 1..Cardinality(idx) |->
            seq[(CHOOSE p \in ranked : p[1] = k)[2]]]

\* mutant of unique: only adjacent repetitions are dropped
unique_consecutive(series) ==
    Select(series, {i \in DOMAIN series : i = 1 \/ series[i - 1] # series[i]})

\* mutant of unique: each value is kept at its last appearance
unique_keep_last(series) ==
    Select(series, {i \in DOMAIN series :
                       \A j \in (i + 1)..Len(series) : series[j] # series[i]})

\* Series.unique(): the distinct values in order of first appearance
unique(series) ==
    Select(series, {i \in DOMAIN series :
                       \A j \in 1..(i - 1) : series[j] # series[i]})

\* mutant of df_feature_level: the mask also keeps the first row
df_feature_level_or_first(d, name, level) ==
    [columns |-> d.columns,
     rows |-> Select(d.rows, {i \in DOMAIN d.rows :
                                 i = 1 \/ d.rows[i][name] = level})]

\* mutant of df_feature_level: the mask is negated (!= for ==)
df_feature_level_negated(d, name, level) ==
    [columns |-> d.columns,
     rows |-> Select(d.rows, {i \in DOMAIN d.rows : d.rows[i][name] # level})]

\* df[df[name] == level]: the rows whose column equals level, in row order
df_feature_level(d, name, level) ==
    [columns |-> d.columns,
     rows |-> Select(d.rows, {i \in DOMAIN d.rows : d.rows[i][name] = level})]

\* np.sum(np.array(entropy_list) * np.array(weight_list)), in millionths
RECURSIVE DotRange(_, _, _, _)
DotRange(a, b, lo, hi) ==
    IF lo > hi THEN 0
    ELSE IF lo = hi THEN a[lo] * b[lo]
    ELSE LET mid == (lo + hi) \div 2
         IN  DotRange(a, b, lo, mid) + DotRange(a, b, mid + 1, hi)

DotProduct(a, b) == DotRange(a, b, 1, Len(a))

NoDf == [columns |-> <<>>, rows |-> <<>>]

\* no second evaluation
NoFrame == <<>>

(***************************************************************************)
(* The state machine.  A notebook cell calls one of the two functions;     *)
(* the call runs to its return or to an uncaught exception; the next cell  *)
(* starts from there.                                                      *)
(***************************************************************************)
Init ==
    /\ pc = "idle"
    /\ fn = ""
    /\ feature = <<>>
    /\ impurity_criterion = ""
    /\ df = NoDf
    /\ target = ""
    /\ descriptive_feature = ""
    /\ split_criterion = ""
    /\ target_entropy = NoValue
    /\ levels = <<>>
    /\ entropy_list = <<>>
    /\ weight_list = <<>>
    /\ feature_remaining_impurity = NoValue
    /\ information_gain = NoValue
    /\ retval = NoValue
    /\ exc = ""
    /\ stdout = <<>>
    /\ calls = <<>>
    /\ history = {}
    /\ suspended = NoFrame

gain_locals == <<target_entropy, levels, entropy_list, weight_list,
                 feature_remaining_impurity, information_gain>>
gain_args == <<df, target, descriptive_feature, split_criterion>>
impurity_args == <<feature, impurity_criterion>>

\* cell 11: a direct call compute_impurity(f, c)
CallComputeImpurity(f, c) ==
    /\ pc = "idle"
    /\ fn' = "compute_impurity"
    /\ feature' = f
    /\ impurity_criterion' = c
    /\ calls' = <<[feature |-> f, criterion |-> c]>>
    /\ LET r == compute_impurity(f, c) IN
          /\ pc' = IF r.raised = "" THEN "returned" ELSE "raised"
          /\ exc' = r.raised
          /\ retval' = r.value
    /\ UNCHANGED <<gain_args, gain_locals, stdout>>
    /\ UNCHANGED <<history, suspended>>

\* cells 16, 17: the call comp_feature_information_gain(d, t, f, c) is entered
CallGain(d, t, f, c) ==
    /\ pc = "idle"
    /\ fn' = "comp_feature_information_gain"
    /\ df' = d
    /\ target' = t
    /\ descriptive_feature' = f
    /\ split_criterion' = c
    /\ pc' = "print_args"
    /\ UNCHANGED <<impurity_args, gain_locals, retval, exc, stdout, calls>>
    /\ UNCHANGED <<history, suspended>>

\* mutant of PrintArgs: the target column is printed as well
PrintArgsAndColumn ==
    /\ pc = "print_args"
    /\ stdout' = stdout \o << <<"target feature:", target>>,
                             <<"descriptive_feature:", descriptive_feature>>,
                             <<"split criterion:", split_criterion>>,
                             <<"target values:", Len(df.rows)>> >>
    /\ pc' = "target_entropy"
    /\ UNCHANGED <<fn, impurity_args, gain_args, gain_locals, retval, exc,
                   calls>>
    /\ UNCHANGED <<history, suspended>>

\* lines 635-637: the three print calls
PrintArgs ==
    /\ pc = "print_args"
    /\ stdout' = stdout \o << <<"target feature:", target>>,
                             <<"descriptive_feature:", descriptive_feature>>,
                             <<"split criterion:", split_criterion>> >>
    /\ pc' = "target_entropy"
    /\ UNCHANGED <<fn, impurity_args, gain_args, gain_locals, retval, exc,
                   calls>>
    /\ UNCHANGED <<history, suspended>>

\* lines 639-645: target_entropy = compute_impurity(df[target], ...),
\* then the two empty lists
TargetEntropy ==
    /\ pc = "target_entropy"
    /\ IF ~HasColumn(df, target)
       THEN /\ pc' = "raised"
            /\ exc' = "KeyError"
            /\ UNCHANGED <<target_entropy, entropy_list, weight_list, calls>>
       ELSE LET r == compute_impurity(Column(df, target), split_criterion) IN
            /\ calls' = Append(calls, [feature |-> Column(df, target),
                                       criterion |-> split_criterion])
            /\ IF r.raised # ""
               THEN /\ pc' = "raised"
                    /\ exc' = r.raised
                    /\ UNCHANGED <<target_entropy, entropy_list, weight_list>>
               ELSE /\ pc' = "for"
                    /\ target_entropy' = r.value
                    /\ entropy_list' = <<>>
                    /\ weight_list' = <<>>
                    /\ exc' = exc
    /\ UNCHANGED <<fn, impurity_args, gain_args, levels,
                   feature_remaining_impurity, information_gain, retval,
                   stdout>>
    /\ UNCHANGED <<history, suspended>>

\* line 650: the iterable df[descriptive_feature].unique() is evaluated
ForLevels ==
    /\ pc = "for"
    /\ IF ~HasColumn(df, descriptive_feature)
       THEN /\ pc' = "raised"
            /\ exc' = "KeyError"
            /\ UNCHANGED levels
       ELSE /\ pc' = "loop"
            /\ levels' = unique(Column(df, descriptive_feature))
            /\ exc' = exc
    /\ UNCHANGED <<fn, impurity_args, gain_args, target_entropy, entropy_list,
                   weight_list, feature_remaining_impurity, information_gain,
                   retval, stdout, calls>>
    /\ UNCHANGED <<history, suspended>>

\* mutant of weight_level: the weight is cut, not rounded, to 3 decimals
weight_level_truncated(part, d) == Floor3(Len(part.rows), Len(d.rows))

\* mutant of weight_level: one row too many in the denominator
weight_level_off_by_one(part, d) == round3(Len(part.rows), Len(d.rows) + 1)

\* the rounded weight of lines 654-655: round(len(part) / len(df), 3)
weight_level(part, d) == round3(Len(part.rows), Len(d.rows))

\* lines 651-655: one pass of the loop body, for the next level
LoopBody ==
    /\ pc = "loop"
    /\ levels # <<>>
    /\ LET level == Head(levels)
           part == df_feature_level(df, descriptive_feature, level)
           r == compute_impurity(Column(part, target), split_criterion)
       IN  /\ calls' = Append(calls, [feature |-> Column(part, target),
                                      criterion |-> split_criterion])
           /\ IF r.raised # ""
              THEN /\ pc' = "raised"
                   /\ exc' = r.raised
                   /\ UNCHANGED <<entropy_list, weight_list, levels>>
              ELSE /\ entropy_list' =
                         Append(entropy_list, round3(r.value[1], 1000))
                   /\ weight_list' = Append(weight_list, weight_level(part, df))
                   /\ levels' = Tail(levels)
                   /\ pc' = pc
                   /\ exc' = exc
    /\ UNCHANGED <<fn, impurity_args, gain_args, target_entropy,
                   feature_remaining_impurity, information_gain, retval,
                   stdout>>
    /\ UNCHANGED <<history, suspended>>

\* lines 657-658: the loop is over; the two lists are printed
PrintLists ==
    /\ pc = "loop"
    /\ levels = <<>>
    /\ stdout' = stdout \o << <<"impurity of partitions:", entropy_list>>,
                             <<"weights of partitions:", weight_list>> >>
    /\ pc' = "remaining"
    /\ UNCHANGED <<fn, impurity_args, gain_args, gain_locals, retval, exc,
                   calls>>
    /\ UNCHANGED <<history, suspended>>

\* the weighted sum of line 660
remaining_impurity(impurities, weights) == DotProduct(impurities, weights)

\* lines 660-661
RemainingImpurity ==
    /\ pc = "remaining"
    /\ feature_remaining_impurity' =
           <<remaining_impurity(entropy_list, weight_list)>>
    /\ stdout' = Append(stdout, <<"remaining impurity:",
                                  feature_remaining_impurity'[1]>>)
    /\ pc' = "gain"
    /\ UNCHANGED <<fn, impurity_args, gain_args, target_entropy, levels,
                   entropy_list, weight_list, information_gain, retval, exc,
                   calls>>
    /\ UNCHANGED <<history, suspended>>

\* mutant of gain_of: the operands of the subtraction swapped
gain_of_swapped(t, remaining) == remaining - t * 1000

\* the difference of line 663, in millionths
gain_of(t, remaining) == t * 1000 - remaining

\* lines 663-666
InformationGain ==
    /\ pc = "gain"
    /\ information_gain' =
           <<gain_of(target_entropy[1], feature_remaining_impurity[1])>>
    /\ stdout' = stdout \o << <<"information gain:", information_gain'[1]>>,
                             <<"====================">> >>
    /\ pc' = "return"
    /\ UNCHANGED <<fn, impurity_args, gain_args, target_entropy, levels,
                   entropy_list, weight_list, feature_remaining_impurity,
                   retval, exc, calls>>
    /\ UNCHANGED <<history, suspended>>

\* mutant of ReturnGain: the remaining impurity is returned
ReturnRemaining ==
    /\ pc = "return"
    /\ retval' = feature_remaining_impurity
    /\ pc' = "returned"
    /\ UNCHANGED <<fn, impurity_args, gain_args, gain_locals, exc, stdout,
                   calls>>
    /\ UNCHANGED <<history, suspended>>

\* mutant of ReturnGain: the last row is dropped from the dataset in place
\* (df.drop(df.index[-1], inplace=True)) before the return
ReturnGainDroppingRow ==
    /\ pc = "return"
    /\ retval' = information_gain
    /\ df' = [df EXCEPT !.rows = SubSeq(@, 1, Len(@) - 1)]
    /\ pc' = "returned"
    /\ UNCHANGED <<fn, impurity_args, target, descriptive_feature,
                   split_criterion, gain_locals, exc, stdout, calls>>
    /\ UNCHANGED <<history, suspended>>

\* line 668: return(information_gain)
ReturnGain ==
    /\ pc = "return"
    /\ retval' = information_gain
    /\ pc' = "returned"
    /\ UNCHANGED <<fn, impurity_args, gain_args, gain_locals, exc, stdout,
                   calls>>
    /\ UNCHANGED <<history, suspended>>

\* comp_feature_information_gain as a function of its arguments: what the
\* steps above compute, from the call to the return or the exception
comp_feature_information_gain(d, t, f, c) ==
    LET failed(e) == [raised |-> e, value |-> NoValue,
                      entropy_list |-> <<>>, weight_list |-> <<>>]
    IN
    IF ~HasColumn(d, t) THEN failed("KeyError")
    ELSE
    LET r == compute_impurity(Column(d, t), c) IN
    IF r.raised # "" THEN failed(r.raised)
    ELSE IF ~HasColumn(d, f) THEN failed("KeyError")
    ELSE
    LET lv == unique(Column(d, f))
        el == [i \in DOMAIN lv |->
                  round3(compute_impurity(
                             Column(df_feature_level(d, f, lv[i]), t),
                             c).value[1], 1000)]
        wl == [i \in DOMAIN lv |->
                  weight_level(df_feature_level(d, f, lv[i]), d)]
    IN  [raised |-> "",
         value |-> <<gain_of(r.value[1], remaining_impurity(el, wl))>>,
         entropy_list |-> el,
         weight_list |-> wl]

\* the call is over (returned or raised); the next cell starts afresh
NextCell ==
    /\ pc \in {"returned", "raised"}
    /\ pc' = "idle"
    /\ fn' = ""
    /\ feature' = <<>>
    /\ impurity_criterion' = ""
    /\ df' = NoDf
    /\ target' = ""
    /\ descriptive_feature' = ""
    /\ split_criterion' = ""
    /\ target_entropy' = NoValue
    /\ levels' = <<>>
    /\ entropy_list' = <<>>
    /\ weight_list' = <<>>
    /\ feature_remaining_impurity' = NoValue
    /\ information_gain' = NoValue
    /\ retval' = NoValue
    /\ exc' = ""
    /\ stdout' = <<>>
    /\ calls' = <<>>
    /\ UNCHANGED <<history, suspended>>

CallImpurityStep ==
    /\ pc = "idle"
    /\ \E f \in Features, c \in Criteria : CallComputeImpurity(f, c)

CallGainStep ==
    /\ pc = "idle"
    /\ \E d \in Datasets :
          \E t \in Targets, f \in Descriptives(d), c \in Criteria :
              CallGain(d, t, f, c)

Next ==
    \/ CallImpurityStep
    \/ CallGainStep
    \/ PrintArgs
    \/ TargetEntropy
    \/ ForLevels
    \/ LoopBody
    \/ PrintLists
    \/ RemainingImpurity
    \/ InformationGain
    \/ ReturnGain
    \/ NextCell

Spec == Init /\ [][Next]_vars

\* the calls of comp_feature_information_gain alone (cells 16, 17)
GainNext ==
    \/ CallGainStep
    \/ PrintArgs
    \/ TargetEntropy
    \/ ForLevels
    \/ LoopBody
    \/ PrintLists
    \/ RemainingImpurity
    \/ InformationGain
    \/ ReturnGain
    \/ NextCell

SpecGain == Init /\ [][GainNext]_vars

\* the direct calls of compute_impurity alone (cell 11)
ImpurityNext ==
    \/ CallImpurityStep
    \/ NextCell

SpecImpurity == Init /\ [][ImpurityNext]_vars

(***************************************************************************)
(* A notebook session on one dataframe.  Cell 10 binds the global df; the  *)
(* cells after it pass this same object to every call (cells 16, 17), so   *)
(* df outlives the calls while the locals do not.  The first MaxHistory    *)
(* calls of the session are remembered with their results.                 *)
(***************************************************************************)
SessionDatasets == {Vegetation}
SessionCriteria == Supported \cup {"foo"}

SessionInit ==
    /\ pc = "idle"
    /\ fn = ""
    /\ feature = <<>>
    /\ impurity_criterion = ""
    /\ df \in SessionDatasets
    /\ target = ""
    /\ descriptive_feature = ""
    /\ split_criterion = ""
    /\ target_entropy = NoValue
    /\ levels = <<>>
    /\ entropy_list = <<>>
    /\ weight_list = <<>>
    /\ feature_remaining_impurity = NoValue
    /\ information_gain = NoValue
    /\ retval = NoValue
    /\ exc = ""
    /\ stdout = <<>>
    /\ calls = <<>>
    /\ history = {}
    /\ suspended = NoFrame

\* the inputs of the running call
CallInputs ==
    [fn |-> fn, feature |-> feature, impurity_criterion |-> impurity_criterion,
     target |-> target, descriptive_feature |-> descriptive_feature,
     split_criterion |-> split_criterion]

\* what the caller gets from the ended call, and the values it computed
CallResults ==
    [retval |-> retval, exc |-> exc, target_entropy |-> target_entropy,
     entropy_list |-> entropy_list, weight_list |-> weight_list,
     feature_remaining_impurity |-> feature_remaining_impurity]

\* cells 16, 17: the session's dataframe is passed
SessionCallGain ==
    /\ pc = "idle"
    /\ \E t \in Targets, f \in Descriptives(df), c \in SessionCriteria :
           CallGain(df, t, f, c)

\* a call of compute_impurity between two calls on the dataframe (cell 11)
SessionCallImpurity ==
    /\ pc = "idle"
    /\ \E c \in Supported : CallComputeImpurity(fruits, c)

\* the call is over: its locals and arguments die with it, the dataframe
\* stays bound in the notebook, and the call is remembered
SessionNextCell ==
    /\ pc \in {"returned", "raised"}
    /\ history' = IF Cardinality(history) < MaxHistory
                  THEN history \cup {[inputs |-> CallInputs,
                                      results |-> CallResults]}
                  ELSE history
    /\ pc' = "idle"
    /\ fn' = ""
    /\ feature' = <<>>
    /\ impurity_criterion' = ""
    /\ df' = df
    /\ target' = ""
    /\ descriptive_feature' = ""
    /\ split_criterion' = ""
    /\ target_entropy' = NoValue
    /\ levels' = <<>>
    /\ entropy_list' = <<>>
    /\ weight_list' = <<>>
    /\ feature_remaining_impurity' = NoValue
    /\ information_gain' = NoValue
    /\ retval' = NoValue
    /\ exc' = ""
    /\ stdout' = <<>>
    /\ calls' = <<>>
    /\ UNCHANGED suspended

SessionNext ==
    \/ SessionCallImpurity
    \/ SessionCallGain
    \/ PrintArgs
    \/ TargetEntropy
    \/ ForLevels
    \/ LoopBody
    \/ PrintLists
    \/ RemainingImpurity
    \/ InformationGain
    \/ ReturnGain
    \/ SessionNextCell

SpecSession == SessionInit /\ [][SessionNext]_vars

(***************************************************************************)
(* Two evaluations over the notebook's dataframe whose steps interleave,   *)
(* as when the caller runs the loops of cells 16, 17 in parallel.  Each    *)
(* call has its own frame (arguments, locals, position, result); the       *)
(* dataframe and the standard output are shared.  The variables hold the   *)
(* frame that is running, suspended holds the other one.                   *)
(***************************************************************************)
\* the frame of the running call
Frame ==
    [pc |-> pc, fn |-> fn, target |-> target,
     descriptive_feature |-> descriptive_feature,
     split_criterion |-> split_criterion, target_entropy |-> target_entropy,
     levels |-> levels, entropy_list |-> entropy_list,
     weight_list |-> weight_list,
     feature_remaining_impurity |-> feature_remaining_impurity,
     information_gain |-> information_gain, retval |-> retval, exc |-> exc,
     calls |-> calls]

\* the frame of an evaluation that has not started
IdleFrame ==
    [pc |-> "idle", fn |-> "", target |-> "", descriptive_feature |-> "",
     split_criterion |-> "", target_entropy |-> NoValue, levels |-> <<>>,
     entropy_list |-> <<>>, weight_list |-> <<>>,
     feature_remaining_impurity |-> NoValue, information_gain |-> NoValue,
     retval |-> NoValue, exc |-> "", calls |-> <<>>]

InterleavedInit ==
    /\ pc = "idle"
    /\ fn = ""
    /\ feature = <<>>
    /\ impurity_criterion = ""
    /\ df \in SessionDatasets
    /\ target = ""
    /\ descriptive_feature = ""
    /\ split_criterion = ""
    /\ target_entropy = NoValue
    /\ levels = <<>>
    /\ entropy_list = <<>>
    /\ weight_list = <<>>
    /\ feature_remaining_impurity = NoValue
    /\ information_gain = NoValue
    /\ retval = NoValue
    /\ exc = ""
    /\ stdout = <<>>
    /\ calls = <<>>
    /\ history = {}
    /\ suspended = IdleFrame

\* one of the two evaluations starts
InterleavedCallGain ==
    /\ pc = "idle"
    /\ \E t \in Targets, f \in Descriptives(df), c \in SessionCriteria :
           CallGain(df, t, f, c)

\* mutant of Switch: the two lists are shared by the evaluations
SwitchSharingLists ==
    /\ suspended # NoFrame
    /\ suspended.pc \notin {"returned", "raised"}
    /\ suspended' = Frame
    /\ pc' = suspended.pc
    /\ fn' = suspended.fn
    /\ target' = suspended.target
    /\ descriptive_feature' = suspended.descriptive_feature
    /\ split_criterion' = suspended.split_criterion
    /\ target_entropy' = suspended.target_entropy
    /\ levels' = suspended.levels
    /\ feature_remaining_impurity' = suspended.feature_remaining_impurity
    /\ information_gain' = suspended.information_gain
    /\ retval' = suspended.retval
    /\ exc' = suspended.exc
    /\ calls' = suspended.calls
    /\ UNCHANGED <<df, impurity_args, stdout, history, entropy_list,
                   weight_list>>

\* the other evaluation takes its next steps: the running frame is set
\* aside and the other frame, not yet ended, becomes the running one
Switch ==
    /\ suspended # NoFrame
    /\ suspended.pc \notin {"returned", "raised"}
    /\ suspended' = Frame
    /\ pc' = suspended.pc
    /\ fn' = suspended.fn
    /\ target' = suspended.target
    /\ descriptive_feature' = suspended.descriptive_feature
    /\ split_criterion' = suspended.split_criterion
    /\ target_entropy' = suspended.target_entropy
    /\ levels' = suspended.levels
    /\ entropy_list' = suspended.entropy_list
    /\ weight_list' = suspended.weight_list
    /\ feature_remaining_impurity' = suspended.feature_remaining_impurity
    /\ information_gain' = suspended.information_gain
    /\ retval' = suspended.retval
    /\ exc' = suspended.exc
    /\ calls' = suspended.calls
    /\ UNCHANGED <<df, impurity_args, stdout, history>>

InterleavedNext ==
    \/ InterleavedCallGain
    \/ PrintArgs
    \/ TargetEntropy
    \/ ForLevels
    \/ LoopBody
    \/ PrintLists
    \/ RemainingImpurity
    \/ InformationGain
    \/ ReturnGain
    \/ Switch

SpecInterleaved == InterleavedInit /\ [][InterleavedNext]_vars

(***************************************************************************)
(* Properties.                                                             *)
(***************************************************************************)
GainCall == fn = "comp_feature_information_gain"
ImpurityCall == fn = "compute_impurity"
GainReturned == GainCall /\ pc = "returned"
ImpurityReturned == ImpurityCall /\ pc = "returned"
Ended == pc \in {"returned", "raised"}

\* the gains the notebook prints for the vegetation dataset under entropy
\* (cell 16), in millionths, and the gini gains the specification quotes
\* to 3 decimals, in thousandths
VegEntropyGain == [stream |-> 306678, slope |-> 578106, elevation |-> 877178]
VegGiniGain == [stream |-> 106, slope |-> 253, elevation |-> 320]

VegCall ==
    /\ GainReturned
    /\ df = Vegetation
    /\ target = "vegetation"
    /\ descriptive_feature \in {"stream", "slope", "elevation"}

\* C10: on the vegetation dataset the gini gains are 0.320 (elevation),
\* 0.253 (slope) and 0.106 (stream) to 3 decimals, elevation > slope >
\* stream, which is also the order of the entropy gains of cell 16.
C10_VegetationGiniRanking ==
    /\ VegGiniGain["elevation"] > VegGiniGain["slope"]
    /\ VegGiniGain["slope"] > VegGiniGain["stream"]
    /\ VegEntropyGain["elevation"] > VegEntropyGain["slope"]
    /\ VegEntropyGain["slope"] > VegEntropyGain["stream"]
    /\ (VegCall /\ split_criterion = "gini") =>
           round3(retval[1], 10^6) = VegGiniGain[descriptive_feature]
    /\ (VegCall /\ split_criterion = "entropy") =>
           retval[1] = VegEntropyGain[descriptive_feature]

C10_Witness ==
    /\ VegCall
    /\ split_criterion = "gini"
    /\ descriptive_feature = "elevation"
    /\ retval = <<319524>>

\* |partition(level)|, counted on the dataset itself
PartitionSize(d, name, level) ==
    Cardinality({i \in DOMAIN d.rows : d.rows[i][name] = level})

\* the impurity compute_impurity returns for the target values of the
\* rows of d whose column name equals level
PartitionImpurity(d, t, name, level, c) ==
    compute_impurity(Column(df_feature_level(d, name, level), t), c).value[1]

\* C1: the returned gain is target_impurity - SUM over the observed levels
\* of partition_impurity(level) * |partition(level)| / |dataset|, with the
\* weight exactly that fraction.  Both sides are multiplied by |dataset|
\* (and by 10^6) to stay in the integers.
C1_GainWithExactWeights ==
    (GainReturned /\ Len(df.rows) > 0) =>
        LET n == Len(df.rows)
            lv == unique(Column(df, descriptive_feature))
            imp == [i \in DOMAIN lv |->
                       PartitionImpurity(df, target, descriptive_feature,
                                         lv[i], split_criterion)]
            size == [i \in DOMAIN lv |->
                        PartitionSize(df, descriptive_feature, lv[i])]
            timp == compute_impurity(Column(df, target),
                                     split_criterion).value[1]
        IN  n * retval[1] = 1000 * (n * timp - DotProduct(imp, size))

\* C2: under entropy or gini the gain of a non-empty dataset is never
\* meaningfully negative.  Rounding the target impurity and the partition
\* impurities to 3 decimals can cost at most 0.001; the bound checked is
\* ten times that, 0.01.
C2_GainNotNegative ==
    (GainReturned /\ Len(df.rows) > 0 /\ split_criterion \in Supported) =>
        retval[1] >= -10000

Homogeneous(series) == Cardinality(Range(series)) = 1

\* C3 as stated: for every non-empty label sequence compute_impurity
\* returns 0 exactly when all labels are identical.
C3_ZeroIffHomogeneous ==
    (ImpurityReturned /\ feature # <<>>) =>
        (retval[1] = 0 <=> Homogeneous(feature))

\* C3 as amended: a sequence of identical labels always gives 0, and for
\* sequences of fewer than 3999 labels 0 is returned only for identical
\* labels (from 3999 labels on, the impurity of a skewed sequence rounds
\* to 0.000).
C3_ZeroIffHomogeneousBelow3999 ==
    (ImpurityReturned /\ feature # <<>>) =>
        /\ Homogeneous(feature) => retval[1] = 0
        /\ (Len(feature) < 3999 /\ retval[1] = 0) => Homogeneous(feature)

C3_Witness ==
    /\ ImpurityReturned
    /\ Len(feature) = 3998
    /\ ~Homogeneous(feature)
    /\ impurity_criterion = "gini"
    /\ retval = <<1>>

\* C4: with a criterion other than 'entropy' and 'gini' compute_impurity
\* raises ValueError and returns nothing, whatever the label sequence;
\* this holds for a direct call and for the calls made by
\* comp_feature_information_gain.
C4_UnknownCriterionRaises ==
    /\ (ImpurityCall /\ impurity_criterion \notin Supported) =>
           (pc = "raised" /\ exc = "ValueError" /\ retval = NoValue)
    /\ (GainCall /\ split_criterion \notin Supported /\ calls # <<>>) =>
           (pc = "raised" /\ exc = "ValueError" /\ retval = NoValue
               /\ Len(calls) = 1 /\ target_entropy = NoValue)

C4_Witness ==
    /\ ImpurityCall
    /\ impurity_criterion = "foo"
    /\ feature = fruits
    /\ pc = "raised"
    /\ exc = "ValueError"

\* C5: compute_impurity on an empty label sequence fails instead of
\* returning a number, under entropy and under gini.
C5_EmptySequenceFails ==
    (ImpurityCall /\ feature = <<>> /\ impurity_criterion \in Supported) =>
        (pc = "raised" /\ retval = NoValue)

\* C6: comp_feature_information_gain on a dataset with zero rows fails
\* rather than returning a gain.
C6_EmptyDatasetFails ==
    (GainCall /\ Ended /\ df.rows = <<>>) =>
        (pc = "raised" /\ retval = NoValue)

MissingAttribute ==
    \/ target \notin Range(df.columns)
    \/ descriptive_feature \notin Range(df.columns)

\* C7 as stated: whenever the target or the descriptive attribute is not a
\* column, the call fails with the missing-attribute error (pandas'
\* KeyError) and returns no gain.
C7_MissingAttributeKeyError ==
    (GainCall /\ Ended /\ MissingAttribute) =>
        (pc = "raised" /\ exc = "KeyError" /\ retval = NoValue)

\* C7 as amended: whenever the target or the descriptive attribute is not
\* a column, the call fails and returns no gain; the error is KeyError,
\* except that with the target present, the descriptive attribute missing
\* and an unsupported criterion the ValueError of the first
\* compute_impurity call comes first.
C7_MissingAttributeFails ==
    (GainCall /\ Ended /\ MissingAttribute) =>
        /\ pc = "raised"
        /\ retval = NoValue
        /\ information_gain = NoValue
        /\ exc = IF target \in Range(df.columns)
                    /\ split_criterion \notin Supported
                 THEN "ValueError" ELSE "KeyError"

C7_Witness ==
    /\ GainCall
    /\ pc = "raised"
    /\ exc = "KeyError"
    /\ df = Vegetation
    /\ target = "vegetation"
    /\ descriptive_feature = "aspect"
    /\ split_criterion = "entropy"
    /\ Len(calls) = 1

NumLevels(series) == Cardinality(Range(series))

\* C8 as stated: for a non-empty sequence with l distinct levels the
\* returned value v satisfies 0 <= v <= 1 - 1/l under gini and
\* 0 <= v <= log2(l) under entropy.
C8_ImpurityRange ==
    (ImpurityReturned /\ feature # <<>>) =>
        LET l == NumLevels(feature)
            v == retval[1]
        IN  /\ v >= 0
            /\ impurity_criterion = "gini" => v * l <= 1000 * (l - 1)
            /\ impurity_criterion = "entropy" => v * 1000 <= log2(l)

\* C8 as amended: the returned value lies between 0 and the bound rounded
\* to 3 decimals: round(1 - 1/l, 3) under gini (so never above 1) and
\* round(log2(l), 3) under entropy.
C8_ImpurityRangeRounded ==
    (ImpurityReturned /\ feature # <<>>) =>
        LET l == NumLevels(feature)
            v == retval[1]
        IN  /\ v >= 0
            /\ impurity_criterion = "gini" =>
                   (v <= round3(l - 1, l) /\ v <= 1000)
            /\ impurity_criterion = "entropy" => v <= round3(log2(l), 10^6)

C8_Witness ==
    /\ ImpurityReturned
    /\ feature = <<"apple", "orange", "banana">>
    /\ impurity_criterion = "gini"
    /\ retval = <<667>>

EquallyFrequent(series) ==
    \A v, w \in Range(series) :
        Cardinality({i \in DOMAIN series : series[i] = v})
            = Cardinality({i \in DOMAIN series : series[i] = w})

\* C9 as stated: when the l distinct levels are equally frequent the
\* returned value is log2(l) under entropy and 1 - 1/l under gini.
C9_UniformImpurity ==
    (ImpurityReturned /\ feature # <<>> /\ EquallyFrequent(feature)) =>
        LET l == NumLevels(feature)
            v == retval[1]
        IN  /\ impurity_criterion = "gini" => v * l = 1000 * (l - 1)
            /\ impurity_criterion = "entropy" => v * 1000 = log2(l)

\* C9 as amended: when the l distinct levels are equally frequent the
\* returned value is log2(l) rounded to 3 decimals under entropy and
\* 1 - 1/l rounded to 3 decimals under gini.
C9_UniformImpurityRounded ==
    (ImpurityReturned /\ feature # <<>> /\ EquallyFrequent(feature)) =>
        LET l == NumLevels(feature)
            v == retval[1]
        IN  /\ impurity_criterion = "gini" => v = round3(l - 1, l)
            /\ impurity_criterion = "entropy" => v = round3(log2(l), 10^6)

C9_Witness ==
    /\ ImpurityReturned
    /\ feature = fruits2
    /\ impurity_criterion = "entropy"
    /\ retval = <<2807>>

\* the values the specification quotes for the vegetation dataset under
\* entropy, in thousandths
VegEntropyGain3 == [stream |-> 307, slope |-> 578, elevation |-> 878]

\* C11: on the vegetation dataset under entropy the target impurity is
\* 1.557, the remaining impurity of elevation is 0.679 and its gain 0.878,
\* the gains of stream and slope are 0.307 and 0.578 (all to 3 decimals),
\* and elevation has the highest gain.
C11_VegetationEntropyGains ==
    /\ VegEntropyGain3["elevation"] > VegEntropyGain3["slope"]
    /\ VegEntropyGain3["elevation"] > VegEntropyGain3["stream"]
    /\ (VegCall /\ split_criterion = "entropy") =>
           /\ target_entropy = <<1557>>
           /\ round3(retval[1], 10^6) = VegEntropyGain3[descriptive_feature]
           /\ descriptive_feature = "elevation" =>
                  round3(feature_remaining_impurity[1], 10^6) = 679

\* C12: compute_impurity gives 1.557 (entropy) and 0.653 (gini) for the
\* basket of 3 apples, 2 oranges and 2 bananas, and 2.807 and 0.857 for the
\* basket of seven distinct fruits, which is higher under both criteria.
C12_FruitBaskets ==
    (ImpurityReturned /\ feature \in {fruits, fruits2}) =>
        LET first == [entropy |-> 1557, gini |-> 653]
            second == [entropy |-> 2807, gini |-> 857]
        IN  /\ feature = fruits => retval[1] = first[impurity_criterion]
            /\ feature = fruits2 => retval[1] = second[impurity_criterion]
            /\ second[impurity_criterion] > first[impurity_criterion]

C12_Witness ==
    /\ ImpurityReturned
    /\ feature = fruits
    /\ impurity_criterion = "entropy"
    /\ retval = <<1557>>

Abs(x) == IF x < 0 THEN 0 - x ELSE x

\* C13: the value compute_impurity returns is a whole number of thousandths
\* within 0.0005 of the exact impurity, and comp_feature_information_gain
\* weights and subtracts exactly these rounded values: its target impurity
\* and its list entries are the values compute_impurity returns for the
\* target column and for each partition, and the gain is the target
\* impurity minus the sum of list entry times stored weight.
C13_RoundedToThreeDecimals ==
    /\ (ImpurityReturned /\ feature # <<>>) =>
           LET probs == value_counts(feature)
               v == retval[1]
           IN  /\ v \in Int
               /\ impurity_criterion = "gini" =>
                      2 * Abs(v * probs.n * probs.n
                                  - 1000 * gini_numerator(probs))
                          <= probs.n * probs.n
               /\ impurity_criterion = "entropy" =>
                      Abs(1000 * v - entropy_impurity(probs)) <= 500
    /\ (GainReturned /\ Len(df.rows) > 0) =>
           LET lv == unique(Column(df, descriptive_feature)) IN
           /\ target_entropy =
                  compute_impurity(Column(df, target), split_criterion).value
           /\ entropy_list =
                  [i \in DOMAIN lv |->
                      PartitionImpurity(df, target, descriptive_feature,
                                        lv[i], split_criterion)]
           /\ retval[1] = 1000 * target_entropy[1]
                              - DotProduct(entropy_list, weight_list)

C13_Witness ==
    /\ VegCall
    /\ split_criterion = "entropy"
    /\ descriptive_feature = "elevation"
    /\ entropy_list = <<918, 0, 1000, 0>>
    /\ weight_list = <<429, 143, 286, 143>>
    /\ retval = <<877178>>

\* s with the elements at positions i and j exchanged
Swap(s, i, j) ==
    [k \in DOMAIN s |-> IF k = i THEN s[j] ELSE IF k = j THEN s[i] ELSE s[k]]

\* s with its first element moved to the end
Rotate(s) == [k \in DOMAIN s |-> s[(k % Len(s)) + 1]]

\* reorderings of the rows: the exchange of the first two rows and the
\* rotation, which generate all permutations (the enumerated small datasets
\* are closed under them); for the vegetation dataset, whose reorderings
\* are not among the datasets, every exchange of two rows as well
Reorderings(rows) ==
    {Rotate(rows)}
        \cup (IF Len(rows) >= 2 THEN {Swap(rows, 1, 2)} ELSE {})
        \cup (IF rows = Vegetation.rows
              THEN {Swap(rows, i, j) : i, j \in DOMAIN rows}
              ELSE {})

\* the reported values by level: (level, impurity, weight)
Reported(d, f, el, wl) ==
    LET lv == unique(Column(d, f))
    IN  {<<lv[i], el[i], wl[i]>> : i \in DOMAIN lv}

\* C16: the gain does not depend on the order of the rows: the same call on
\* the dataset with its rows reordered returns the same gain, and reports
\* the same impurity and weight for each level (only their order in the
\* lists may differ).
C16_RowOrderIndependent ==
    (GainReturned /\ Len(df.rows) > 0) =>
        \A rows \in Reorderings(df.rows) :
            LET d == [df EXCEPT !.rows = rows]
                o == comp_feature_information_gain(
                         d, target, descriptive_feature, split_criterion)
            IN  /\ o.raised = ""
                /\ o.value = retval
                /\ Len(o.entropy_list) = Len(entropy_list)
                /\ Reported(d, descriptive_feature,
                            o.entropy_list, o.weight_list)
                       = Reported(df, descriptive_feature,
                                  entropy_list, weight_list)

\* a reordering of the vegetation rows changes the order of the lists
C16_Witness ==
    /\ VegCall
    /\ split_criterion = "entropy"
    /\ descriptive_feature = "elevation"
    /\ retval = <<877178>>
    /\ LET o == comp_feature_information_gain(
                    [df EXCEPT !.rows = Swap(df.rows, 1, 2)],
                    target, descriptive_feature, split_criterion)
       IN  /\ o.value = retval
           /\ o.entropy_list = <<0, 918, 1000, 0>>
           /\ entropy_list = <<918, 0, 1000, 0>>

\* the sum of the lengths of the features passed in calls lo..hi
RECURSIVE LenRange(_, _, _)
LenRange(cs, lo, hi) ==
    IF lo > hi THEN 0
    ELSE IF lo = hi THEN Len(cs[lo].feature)
    ELSE LET mid == (lo + hi) \div 2
         IN  LenRange(cs, lo, mid) + LenRange(cs, mid + 1, hi)

\* C19: the partitions the loop selects are pairwise disjoint, their union
\* is the whole dataset and their sizes sum to the number of rows.  The
\* partitions are those whose target columns were passed to
\* compute_impurity, one per iteration; they are compared as sets of rows:
\* no two of them are the same set, any two are disjoint, and together they
\* are the rows of the dataset.
C19_PartitionsCoverDisjointly ==
    GainReturned =>
        LET lv == unique(Column(df, descriptive_feature))
            m == Len(lv)
            part(i) == df_feature_level(df, descriptive_feature, lv[i])
            PartSets == {Range(part(i).rows) : i \in 1..m}
        IN  /\ Len(calls) = m + 1
            /\ \A i \in 1..m : calls[i + 1].feature = Column(part(i), target)
            /\ Cardinality(PartSets) = m
            /\ \A P, Q \in PartSets : P # Q => P \cap Q = {}
            /\ UNION PartSets = Range(df.rows)
            /\ LenRange(calls, 2, m + 1) = Len(df.rows)

C19_Witness ==
    /\ VegCall
    /\ split_criterion = "gini"
    /\ descriptive_feature = "elevation"
    /\ Len(calls) = 5
    /\ <<Len(calls[2].feature), Len(calls[3].feature),
         Len(calls[4].feature), Len(calls[5].feature)>> = <<3, 1, 2, 1>>

\* the position at which the value v first appears in s
FirstPos(s, v) ==
    CHOOSE i \in DOMAIN s : s[i] = v /\ \A j \in 1..(i - 1) : s[j] # v

\* the distinct values of s, ordered by the position of their first
\* appearance
FirstAppearance(s) == Select(s, {FirstPos(s, v) : v \in Range(s)})

\* C20: the loop enumerates each distinct level of the descriptive
\* attribute exactly once, in order of first appearance in the dataset
\* (when the loop starts, the levels to visit are the values of the column,
\* with strictly increasing first positions), and the i-th entries of the
\* impurity list and of the weight list are the impurity and the rounded
\* weight of the partition of the i-th such level.
C20_FirstAppearanceOrder ==
    /\ (GainCall /\ pc = "loop" /\ entropy_list = <<>>) =>
           LET col == Column(df, descriptive_feature)
               fp == [k \in DOMAIN levels |-> FirstPos(col, levels[k])]
           IN  /\ Range(levels) = Range(col)
               /\ \A k \in 1..(Len(levels) - 1) : fp[k] < fp[k + 1]
    /\ (GainCall /\ pc = "loop") => Len(entropy_list) = Len(weight_list)
    /\ GainReturned =>
           LET fa == FirstAppearance(Column(df, descriptive_feature)) IN
           /\ Len(entropy_list) = Len(fa)
           /\ Len(weight_list) = Len(fa)
           /\ \A i \in DOMAIN fa :
                  /\ entropy_list[i] =
                         PartitionImpurity(df, target, descriptive_feature,
                                           fa[i], split_criterion)
                  /\ weight_list[i] =
                         round3(PartitionSize(df, descriptive_feature, fa[i]),
                                Len(df.rows))

\* half way through the levels of elevation: high and low are done
C20_Witness ==
    /\ GainCall
    /\ pc = "loop"
    /\ df = Vegetation
    /\ descriptive_feature = "elevation"
    /\ split_criterion = "entropy"
    /\ levels = <<"medium", "highest">>
    /\ entropy_list = <<918, 0>>
    /\ weight_list = <<429, 143>>

\* the lines a successful call prints (lines 635-637, 657-658, 661,
\* 664-666), from the values the call computed
PrintedLines ==
    << <<"target feature:", target>>,
       <<"descriptive_feature:", descriptive_feature>>,
       <<"split criterion:", split_criterion>>,
       <<"impurity of partitions:", entropy_list>>,
       <<"weights of partitions:", weight_list>>,
       <<"remaining impurity:", feature_remaining_impurity[1]>>,
       <<"information gain:", information_gain[1]>>,
       <<"====================">> >>

\* the report the specification describes
GainReport ==
    [target_impurity |-> target_entropy[1],
     level_impurities |-> entropy_list,
     level_weights |-> weight_list,
     remaining_impurity |-> feature_remaining_impurity[1],
     information_gain |-> information_gain[1]]

C14_IdenticalResults ==
    (GainCall /\ Ended) =>
        \A h \in history :
            h.inputs = CallInputs => h.results = CallResults

\* the elevation call repeated after a call on another attribute
C14_Witness ==
    /\ GainReturned
    /\ descriptive_feature = "elevation"
    /\ split_criterion = "entropy"
    /\ retval = <<877178>>
    /\ Cardinality(history) = 2
    /\ \E h \in history : h.inputs = CallInputs /\ h.results.retval = retval
    /\ \E h \in history :
           /\ h.inputs.descriptive_feature = "slope"
           /\ h.results.retval = <<578106>>

\* a step of a running call (the call's entry included, the end of the
\* cell excluded)
CallStep == pc' # "idle"

TargetValuesAt(d, t, name, level) ==
    Select(Column(d, t), {j \in DOMAIN d.rows : d.rows[j][name] = level})

\* C21: during one call of comp_feature_information_gain on a dataset
\* whose descriptive attribute has k levels, compute_impurity is invoked
\* exactly k + 1 times: first on the whole target column, then once per
\* level on the target values of its partition, in the order of the levels,
\* and the gain is computed only after the last of these calls.
C21_ImpurityCalls ==
    /\ (GainCall /\ pc \in {"print_args", "target_entropy"}) => calls = <<>>
    /\ (GainCall /\ pc \in {"for", "loop"}) =>
           /\ Len(calls) = 1 + Len(entropy_list)
           /\ calls[1] = [feature |-> Column(df, target),
                          criterion |-> split_criterion]
           /\ information_gain = NoValue
    /\ (GainCall /\ information_gain # NoValue) =>
           Len(calls) =
               Cardinality(Range(Column(df, descriptive_feature))) + 1
    /\ GainReturned =>
           LET fa == FirstAppearance(Column(df, descriptive_feature)) IN
           /\ Len(calls) = Len(fa) + 1
           /\ \A i \in DOMAIN fa :
                  calls[i + 1] =
                      [feature |-> TargetValuesAt(df, target,
                                                  descriptive_feature, fa[i]),
                       criterion |-> split_criterion]

\* the five calls of the elevation evaluation, the gain just computed
C21_Witness ==
    /\ GainCall
    /\ pc = "return"
    /\ df = Vegetation
    /\ descriptive_feature = "elevation"
    /\ split_criterion = "entropy"
    /\ information_gain = <<877178>>
    /\ Len(calls) = 5
    /\ calls[1].feature = Column(Vegetation, "vegetation")
    /\ calls[3].feature = <<"riparian">>

\* the sum of the elements 1..hi of a sequence of numbers
RECURSIVE SumRange(_, _, _)
SumRange(s, lo, hi) ==
    IF lo > hi THEN 0
    ELSE IF lo = hi THEN s[lo]
    ELSE LET mid == (lo + hi) \div 2
         IN  SumRange(s, lo, mid) + SumRange(s, mid + 1, hi)

SingleLevel ==
    /\ Len(df.rows) > 0
    /\ Cardinality(Range(Column(df, descriptive_feature))) = 1

\* C24: with a single level in a non-empty dataset there is exactly one
\* partition, the whole dataset, with weight 1; the remaining impurity
\* equals the target impurity and the returned gain is exactly 0, under
\* both criteria.
C24_SingleLevelGainZero ==
    (GainReturned /\ SingleLevel) =>
        /\ Len(calls) = 2
        /\ calls[2].feature = Column(df, target)
        /\ weight_list = <<1000>>
        /\ entropy_list = target_entropy
        /\ feature_remaining_impurity = <<1000 * target_entropy[1]>>
        /\ retval = <<0>>

C24_Witness ==
    /\ GainReturned
    /\ SingleLevel
    /\ Len(df.rows) = 3
    /\ split_criterion = "entropy"
    /\ target_entropy = <<918>>
    /\ feature_remaining_impurity = <<918000>>
    /\ retval = <<0>>

\* every partition of the descriptive attribute has one target value
HomogeneousPartitions ==
    /\ Len(df.rows) > 0
    /\ \A i, j \in DOMAIN df.rows :
           df.rows[i][descriptive_feature] = df.rows[j][descriptive_feature]
               => df.rows[i][target] = df.rows[j][target]

\* C25: when every partition is homogeneous in the target, every
\* partition impurity is 0, the remaining impurity is 0 and the returned
\* gain equals the target impurity, under both criteria.
C25_HomogeneousPartitionsGain ==
    (GainReturned /\ HomogeneousPartitions) =>
        /\ \A i \in DOMAIN entropy_list : entropy_list[i] = 0
        /\ feature_remaining_impurity = <<0>>
        /\ retval = <<1000 * target_entropy[1]>>

C25_Witness ==
    /\ GainReturned
    /\ HomogeneousPartitions
    /\ Len(df.rows) = 3
    /\ split_criterion = "gini"
    /\ entropy_list = <<0, 0, 0>>
    /\ target_entropy = <<444>>
    /\ retval = <<444000>>

\* C26: for a non-empty dataset every partition built in the loop has at
\* least one row, so no call of compute_impurity made by the evaluator gets
\* an empty sequence, and the lists have one entry per distinct level.
C26_PartitionsNotEmpty ==
    (GainCall /\ Len(df.rows) > 0) =>
        /\ calls # <<>> => calls[Len(calls)].feature # <<>>
        /\ pc = "returned" =>
               LET k == Cardinality(Range(Column(df, descriptive_feature)))
               IN  /\ Len(entropy_list) = k
                   /\ Len(weight_list) = k
                   /\ \A i \in DOMAIN calls : calls[i].feature # <<>>

\* the partition of the level low of elevation: one row
C26_Witness ==
    /\ GainCall
    /\ pc = "loop"
    /\ df = Vegetation
    /\ descriptive_feature = "elevation"
    /\ Len(calls) = 3
    /\ Len(calls[3].feature) = 1
    /\ levels = <<"medium", "highest">>
    /\ split_criterion = "gini"

\* a label that occurs in no enumerated sequence
FreshLabel == "kiwi"

\* reorderings of a label sequence: the exchange of the first two labels
\* and the rotation, which generate all permutations (the enumerated
\* sequences are closed under them); for the two fruit baskets every
\* exchange of two labels
SeqReorderings(s) ==
    {Rotate(s)}
        \cup (IF Len(s) >= 2 THEN {Swap(s, 1, 2)} ELSE {})
        \cup (IF s \in {fruits, fruits2}
              THEN {Swap(s, i, j) : i, j \in DOMAIN s}
              ELSE {})

\* injective renamings of the labels S: every injective map into the
\* labels and the fresh one when S has at most three labels, otherwise
\* every exchange of two labels and every replacement of one label by the
\* fresh one
Renamings(S) ==
    IF Cardinality(S) <= Cardinality(Labels)
    THEN {m \in [S -> Labels \cup {FreshLabel}] :
             \A a, b \in S : a # b => m[a] # m[b]}
    ELSE {[v \in S |-> IF v = a THEN b ELSE IF v = b THEN a ELSE v] :
             a, b \in S}
         \cup {[v \in S |-> IF v = a THEN FreshLabel ELSE v] : a \in S}

\* C27: compute_impurity depends only on the multiset of label counts:
\* under both criteria the value returned for a sequence is also returned
\* for every reordering of it and for its image under every injective
\* renaming of its labels.
C27_CountsOnly ==
    ImpurityReturned =>
        /\ \A s \in SeqReorderings(feature) :
               compute_impurity(s, impurity_criterion) = Returned(retval[1])
        /\ \A m \in Renamings(Range(feature)) :
               compute_impurity([i \in DOMAIN feature |-> m[feature[i]]],
                                impurity_criterion) = Returned(retval[1])

C27_Witness ==
    /\ ImpurityReturned
    /\ feature = <<"apple", "orange", "apple", "banana">>
    /\ impurity_criterion = "entropy"
    /\ retval = <<1500>>
    /\ compute_impurity(<<"kiwi", "banana", "kiwi", "apple">>, "entropy")
           = Returned(1500)
    /\ compute_impurity(<<"orange", "apple", "banana", "apple">>, "entropy")
           = Returned(1500)

\* the evaluation of frame f, ended, has the result of the same call run
\* alone on the dataframe
SameAsAlone(f) ==
    (f.fn = "comp_feature_information_gain"
        /\ f.pc \in {"returned", "raised"}) =>
        LET o == comp_feature_information_gain(
                     df, f.target, f.descriptive_feature, f.split_criterion)
        IN  /\ f.exc = o.raised
            /\ f.retval = o.value
            /\ f.pc = "returned" =>
                   /\ f.entropy_list = o.entropy_list
                   /\ f.weight_list = o.weight_list

\* C22: two evaluations of comp_feature_information_gain over the same
\* dataset, for any attributes and criteria, do not affect each other:
\* however their steps interleave, each ends with the gain (or the
\* exception) it has when it runs alone, and the dataset is unchanged.
C22_InterleavingIndependent ==
    /\ df \in SessionDatasets
    /\ SameAsAlone(Frame)
    /\ SameAsAlone(suspended)

\* both evaluations have ended; their argument lines and then their lists
\* were printed in turn
C22_Witness ==
    /\ GainReturned
    /\ descriptive_feature = "elevation"
    /\ split_criterion = "entropy"
    /\ retval = <<877178>>
    /\ suspended.pc = "returned"
    /\ suspended.descriptive_feature = "slope"
    /\ suspended.split_criterion = "gini"
    /\ suspended.retval = <<253160>>
    /\ stdout[1] = <<"target feature:", "vegetation">>
    /\ stdout[4] = <<"target feature:", "vegetation">>
    /\ Len(stdout) = 16
    /\ stdout[7][1] = "impurity of partitions:"
    /\ stdout[9][1] = "impurity of partitions:"

====
